---- MODULE Spec2Model ----
(***************************************************************************)
(* Carpooling: the ride aggregate of the rides app (src/rides).            *)
(*                                                                         *)
(* The persisted state is the UserProfile table, the Ride table and the    *)
(* RideShare table.  Every view of src/rides/views.py that changes it is   *)
(* an action; the methods of Ride (src/rides/models.py) are operators on   *)
(* a ride row that the views call.                                         *)
(*                                                                         *)
(* Spec      runs the views one at a time (each request runs to its end).  *)
(* ConcSpec  runs the share requests (join, edit-share, leave) of several  *)
(*           web workers at once, one database statement per step, with    *)
(*           the row lock of select_for_update.                            *)
(* ShareSpec and FindSpec run the views of one concern one at a time on    *)
(*           larger data (seats of one ride; the search for a ride).       *)
(* RaceSpec  runs accept_assignment, edit_ride and delete_ride in two      *)
(*           steps (read and check, then write) among the share requests   *)
(*           and the other ride views.                                     *)
(* FairSpec  runs the share requests on two rides under fair scheduling;   *)
(*           FrameSpec runs them on two rides with one worker.             *)
(* LegacySpec runs join_ride, edit_share and leave_ride of the users app   *)
(*           (src/users).                                                  *)
(***************************************************************************)
EXTENDS Integers, Sequences, FiniteSets, TLC

\* ------------------------------------------------------------------ bounds

MaxCap == 2        \* largest vehicle capacity a driver registers
MaxPassenger == 2  \* largest seat count a creator asks for
MaxCount == 2      \* largest passenger_count a sharer posts
MaxClock == 1      \* the clock stops ticking here

\* ----------------------------------------------------------- the population

Users == {"u1", "u2", "u3"}
Admins == {"u3"}               \* is_staff / is_superuser
Creators == {"u1"}             \* the users who post rides
RoleSwitchers == {"u1", "u2"}  \* the users who switch between driver and passenger
DriverPool == {"u1", "u2"}     \* the users who register a vehicle
Rides == {1}
NoUser == "nobody"             \* a NULL foreign key
NoTime == -1                   \* a NULL DateTimeField
Unknown == -1                  \* available_seats() = None

ROLE_DRIVER == "driver"
ROLE_USER == "user"
STATUS_OPEN == "open"
STATUS_DRIVING == "driving"
STATUS_COMPLETED == "completed"
ASSIGN_NONE == "none"
ASSIGN_PENDING == "pending"
ASSIGN_ACCEPTED == "accepted"
ASSIGN_REJECTED == "rejected"

VARIABLES
    profile,   \* UserProfile: [Users -> [role, capacity]]
    ride,      \* Ride: [Rides -> row]; row.row is "absent", "live" or "deleted"
    shares,    \* RideShare: [Rides -> [Users -> sequence of passenger_count]]
    now,       \* timezone.now()
    req,       \* ConcSpec: [Workers -> the request a worker is serving]
    lock       \* ConcSpec: [Rides -> the worker holding the row lock, or NoWorker]

vars == <<profile, ride, shares, now, req, lock>>

\* ------------------------------------------------------------------ tables

\* UserProfile as ensure_profile creates it
NewProfile == [role |-> ROLE_USER, capacity |-> 0]

\* a ride id not yet given out
AbsentRide ==
    [row |-> "absent", rider |-> NoUser, driver |-> NoUser, passenger |-> 0,
     sharable |-> FALSE, status |-> STATUS_OPEN, assignment_status |-> ASSIGN_NONE,
     assigned_at |-> NoTime, assigned_by |-> NoUser]

DeletedRide == [AbsentRide EXCEPT !.row = "deleted"]

NoShares == [u \in Users |-> <<>>]

RECURSIVE SeqSum(_)
SeqSum(s) == IF s = <<>> THEN 0 ELSE Head(s) + SeqSum(Tail(s))

RECURSIVE SumOver(_, _)
SumOver(rows, S) ==
    IF S = {} THEN 0
    ELSE LET u == CHOOSE x \in S : TRUE
         IN SeqSum(rows[u]) + SumOver(rows, S \ {u})

\* rideshare_set.aggregate(total=Sum('passenger_count'))['total'] or 0
SharedSum(rows) == SumOver(rows, DOMAIN rows)

Max(a, b) == IF a >= b THEN a ELSE b

\* ------------------------------------------------------------ Ride methods

\* available_seats that answers 0 where nothing can be computed
AvailableSeatsUnknownAsZero(self, prof, rows) ==
    IF self.driver = NoUser THEN 0
    ELSE LET cap == prof[self.driver].capacity
         IN IF cap <= 0 THEN 0
            ELSE Max(cap - self.passenger - SharedSum(rows), 0)

\* Ride.available_seats on the row `self`
AvailableSeats(self, prof, rows) ==
    IF self.driver = NoUser THEN Unknown
    ELSE LET cap == prof[self.driver].capacity
         IN IF cap <= 0 THEN Unknown
            ELSE Max(cap - self.passenger - SharedSum(rows), 0)

\* Ride.total_committed
TotalCommitted(self, rows) == self.passenger + SharedSum(rows)

\* an available_seats() result used as it is, None not replaced by 0
OrZeroKeepsUnknown(a) == a

\* (x or 0) of an available_seats() result
OrZero(a) == IF a = Unknown THEN 0 ELSE a

\* assign_driver with auto_accept ignored: every assignment waits for the driver
AssignDriverAlwaysPending(self, user, assigned_by, auto_accept, t) ==
    [self EXCEPT !.driver = user,
                 !.assigned_at = t,
                 !.assigned_by = assigned_by,
                 !.assignment_status = ASSIGN_PENDING]

\* assign_driver with every assignment taken as accepted
AssignDriverAlwaysAccepted(self, user, assigned_by, auto_accept, t) ==
    [self EXCEPT !.driver = user,
                 !.assigned_at = t,
                 !.assigned_by = assigned_by,
                 !.assignment_status = ASSIGN_ACCEPTED]

\* Ride.assign_driver
AssignDriver(self, user, assigned_by, auto_accept, t) ==
    [self EXCEPT !.driver = user,
                 !.assigned_at = t,
                 !.assigned_by = assigned_by,
                 !.assignment_status =
                     IF auto_accept THEN ASSIGN_ACCEPTED ELSE ASSIGN_PENDING]

\* accept_assignment without the capacity check
AcceptAssignmentNoCapacity(self, user, prof, rows) ==
    IF self.driver # user THEN [res |-> "not_driver", self |-> self]
    ELSE [res |-> "ok",
          self |-> [self EXCEPT !.assignment_status = ASSIGN_ACCEPTED]]

\* accept_assignment without the check that the user is the assigned driver
AcceptAssignmentAnyUser(self, user, prof, rows) ==
    IF prof[user].capacity < TotalCommitted(self, rows)
    THEN [res |-> "capacity", self |-> self]
    ELSE [res |-> "ok",
          self |-> [self EXCEPT !.assignment_status = ASSIGN_ACCEPTED]]

\* accept_assignment that writes assignment_status before it compares the seats
AcceptAssignmentSaveThenCheck(self, user, prof, rows) ==
    IF self.driver # user THEN [res |-> "not_driver", self |-> self]
    ELSE [res |-> IF prof[user].capacity < TotalCommitted(self, rows)
                  THEN "capacity" ELSE "ok",
          self |-> [self EXCEPT !.assignment_status = ASSIGN_ACCEPTED]]

\* Ride.accept_assignment: [res, self]
AcceptAssignment(self, user, prof, rows) ==
    IF self.driver # user THEN [res |-> "not_driver", self |-> self]
    ELSE IF prof[user].capacity < TotalCommitted(self, rows)
         THEN [res |-> "capacity", self |-> self]
         ELSE [res |-> "ok",
               self |-> [self EXCEPT !.assignment_status = ASSIGN_ACCEPTED]]

\* reject_assignment that clears the driver and leaves assignment_status as it is
RejectAssignmentKeepStatus(self, user, clear_driver) ==
    IF self.driver # user THEN [res |-> "not_driver", self |-> self]
    ELSE IF clear_driver
         THEN [res |-> "ok",
               self |-> [self EXCEPT !.driver = NoUser,
                                     !.assigned_at = NoTime,
                                     !.assigned_by = NoUser]]
         ELSE [res |-> "ok",
               self |-> [self EXCEPT !.assignment_status = ASSIGN_REJECTED]]

\* reject_assignment that forgets to clear assigned_at and assigned_by
RejectAssignmentKeepAssigner(self, user, clear_driver) ==
    IF self.driver # user THEN [res |-> "not_driver", self |-> self]
    ELSE IF clear_driver
         THEN [res |-> "ok",
               self |-> [self EXCEPT !.driver = NoUser,
                                     !.assignment_status = ASSIGN_REJECTED]]
         ELSE [res |-> "ok",
               self |-> [self EXCEPT !.assignment_status = ASSIGN_REJECTED]]

\* Ride.reject_assignment: [res, self]
RejectAssignment(self, user, clear_driver) ==
    IF self.driver # user THEN [res |-> "not_driver", self |-> self]
    ELSE IF clear_driver
         THEN [res |-> "ok",
               self |-> [self EXCEPT !.driver = NoUser,
                                     !.assignment_status = ASSIGN_REJECTED,
                                     !.assigned_at = NoTime,
                                     !.assigned_by = NoUser]]
         ELSE [res |-> "ok",
               self |-> [self EXCEPT !.assignment_status = ASSIGN_REJECTED]]

\* start without the check of status
StartAnyStatus(self, user) ==
    IF self.driver = NoUser \/ self.driver # user
      THEN [res |-> "not_driver", self |-> self]
    ELSE IF self.assignment_status # ASSIGN_ACCEPTED
      THEN [res |-> "not_accepted", self |-> self]
    ELSE [res |-> "ok", self |-> [self EXCEPT !.status = STATUS_DRIVING]]

\* start without the check of assignment_status
StartNoAcceptance(self, user) ==
    IF self.driver = NoUser \/ self.driver # user
      THEN [res |-> "not_driver", self |-> self]
    ELSE IF self.status # STATUS_OPEN
      THEN [res |-> "bad_status", self |-> self]
    ELSE [res |-> "ok", self |-> [self EXCEPT !.status = STATUS_DRIVING]]

\* Ride.start: [res, self]
Start(self, user) ==
    IF self.driver = NoUser \/ self.driver # user
      THEN [res |-> "not_driver", self |-> self]
    ELSE IF self.assignment_status # ASSIGN_ACCEPTED
      THEN [res |-> "not_accepted", self |-> self]
    ELSE IF self.status # STATUS_OPEN
      THEN [res |-> "bad_status", self |-> self]
    ELSE [res |-> "ok", self |-> [self EXCEPT !.status = STATUS_DRIVING]]

\* Ride.complete: [res, self]
Complete(self, user) ==
    IF self.driver = NoUser \/ self.driver # user
      THEN [res |-> "not_driver", self |-> self]
    ELSE IF self.status # STATUS_DRIVING
      THEN [res |-> "bad_status", self |-> self]
    ELSE [res |-> "ok", self |-> [self EXCEPT !.status = STATUS_COMPLETED]]

\* ------------------------------------------------------- RideShare storage

\* rideshare_set.filter(sharer=user).first(): the position of the row in
\* rows[user], 0 when there is none (ordering -joined_at: the newest first)
ExistingShare(rows, user) == Len(rows[user])

\* existing.passenger_count if existing else 0
ExistingCount(rows, user) ==
    IF ExistingShare(rows, user) = 0 THEN 0
    ELSE rows[user][ExistingShare(rows, user)]

\* RideShare.objects.create under unique_together (ride, sharer): [res, rows]
RideShareCreate(rows, user, n) ==
    IF rows[user] # <<>>
    THEN [res |-> "concurrency", rows |-> rows]       \* IntegrityError
    ELSE [res |-> "ok", rows |-> [rows EXCEPT ![user] = Append(@, n)]]

\* a save that reports success and writes nothing
RideShareSaveNothing(rows, user, n) ==
    IF ExistingShare(rows, user) = 0
    THEN [res |-> "db_error", rows |-> rows]
    ELSE [res |-> "ok", rows |-> rows]

\* a save whose UPDATE is not limited to the row of the sharer: every share
\* of the ride gets the count
RideShareSaveEveryRow(rows, user, n) ==
    IF ExistingShare(rows, user) = 0
    THEN [res |-> "db_error", rows |-> rows]
    ELSE [res |-> "ok",
          rows |-> [u \in DOMAIN rows |-> IF rows[u] = <<>> THEN <<>> ELSE <<n>>]]

\* existing.passenger_count = n; existing.save(update_fields=[...]): [res, rows]
RideShareSave(rows, user, n) ==
    IF ExistingShare(rows, user) = 0
    THEN [res |-> "db_error", rows |-> rows]          \* no row was updated
    ELSE [res |-> "ok",
          rows |-> [rows EXCEPT ![user][ExistingShare(rows, user)] = n]]

\* --------------------------------------------------- Ride: the share methods

\* join_or_update_share, the checks before the transaction
JoinPrecheck(self, n) ==
    IF n <= 0 THEN "validation"
    ELSE IF ~self.sharable \/ self.status # STATUS_OPEN THEN "not_sharable"
    ELSE IF self.driver = NoUser \/ self.assignment_status # ASSIGN_ACCEPTED
      THEN "no_driver"
    ELSE "ok"

\* the seats of the other sharers not counted: capacity - creator seats
ShareAvailableIgnoringShares(locked, prof, rows, held) ==
    OrZero(AvailableSeats(locked, prof, NoShares)) + held

\* the seats the sharer holds not given back
ShareAvailableNoGiveBack(locked, prof, rows, held) ==
    OrZero(AvailableSeats(locked, prof, rows))

\* (locked.available_seats() or 0) + the count the sharer holds
ShareAvailable(locked, prof, rows, held) ==
    OrZero(AvailableSeats(locked, prof, rows)) + held

\* the write as a plain INSERT into a table that does not enforce the
\* (ride, sharer) key
JoinWriteInsert(rows, user, existing, n) ==
    [res |-> "ok", rows |-> [rows EXCEPT ![user] = Append(@, n)]]

\* join_or_update_share, the writes of the transaction: [res, rows]
JoinWrite(rows, user, existing, n) ==
    IF existing # 0 THEN RideShareSave(rows, user, n)
    ELSE RideShareCreate(rows, user, n)

\* Ride.join_or_update_share run to its end: [res, rows]
JoinOrUpdateShare(self, prof, rows, user, n) ==
    IF JoinPrecheck(self, n) # "ok"
    THEN [res |-> JoinPrecheck(self, n), rows |-> rows]
    ELSE IF n > ShareAvailable(self, prof, rows, ExistingCount(rows, user))
    THEN [res |-> "capacity", rows |-> rows]
    ELSE JoinWrite(rows, user, ExistingShare(rows, user), n)

\* leave_share without the filter on the sharer: every share of the ride goes
LeaveShareAll(rows, user) == [u \in DOMAIN rows |-> <<>>]

\* Ride.leave_share
LeaveShare(rows, user) == [rows EXCEPT ![user] = <<>>]

\* update_share, the checks before the transaction
UpdatePrecheck(rows, user, n) ==
    IF n <= 0 THEN "validation"
    ELSE IF ExistingShare(rows, user) = 0 THEN "not_found"
    ELSE "ok"

\* Ride.update_share run to its end: [res, rows]
UpdateShare(self, prof, rows, user, n) ==
    IF UpdatePrecheck(rows, user, n) # "ok"
    THEN [res |-> UpdatePrecheck(rows, user, n), rows |-> rows]
    ELSE IF n > ShareAvailable(self, prof, rows, ExistingCount(rows, user))
    THEN [res |-> "capacity", rows |-> rows]
    ELSE RideShareSave(rows, user, n)

\* ------------------------------------------------------------------- views

is_admin(user) == user \in Admins

Idle == UNCHANGED <<req, lock>>

\* the clock
Tick ==
    /\ now < MaxClock
    /\ now' = now + 1
    /\ UNCHANGED <<profile, ride, shares, req, lock>>

\* views.register_driver with DriverForm.clean_capacity: the profile saved
RegisterDriverRow(prof, cap) ==
    IF cap <= 0 THEN prof
    ELSE [role |-> ROLE_DRIVER, capacity |-> cap]

RegisterDriver(actor, cap) ==
    /\ profile' = [profile EXCEPT ![actor] = RegisterDriverRow(profile[actor], cap)]
    /\ UNCHANGED <<ride, shares, now>> /\ Idle

\* views.set_role_driver
SetRoleDriver(actor) ==
    /\ profile' = [profile EXCEPT ![actor].role = ROLE_DRIVER]
    /\ UNCHANGED <<ride, shares, now>> /\ Idle

\* views.revert_to_passenger
RevertToPassenger(actor) ==
    /\ profile' = [profile EXCEPT ![actor].role = ROLE_USER]
    /\ UNCHANGED <<ride, shares, now>> /\ Idle

\* the id the next Ride row gets
NextRideId == CHOOSE r \in DOMAIN ride :
    /\ ride[r].row = "absent"
    /\ \A q \in DOMAIN ride : ride[q].row = "absent" => r <= q

\* the row views.create_ride saves
CreatedRide(actor, prof, p, sh, drive_self, t) ==
    IF prof[actor].role = ROLE_DRIVER \/ drive_self
    THEN [row |-> "live", rider |-> actor, driver |-> actor, passenger |-> p,
          sharable |-> sh, status |-> STATUS_OPEN,
          assignment_status |-> ASSIGN_ACCEPTED,
          assigned_at |-> t, assigned_by |-> actor]
    ELSE [row |-> "live", rider |-> actor, driver |-> NoUser, passenger |-> p,
          sharable |-> sh, status |-> STATUS_OPEN,
          assignment_status |-> ASSIGN_NONE,
          assigned_at |-> NoTime, assigned_by |-> NoUser]

\* views.create_ride
CreateRide(actor, p, sh, drive_self) ==
    /\ \E r \in DOMAIN ride : ride[r].row = "absent"
    /\ ride' = [ride EXCEPT ![NextRideId] =
                   CreatedRide(actor, profile, p, sh, drive_self, now)]
    /\ UNCHANGED <<profile, shares, now>> /\ Idle

\* views.edit_ride (POST): [res, self]
EditRideRow(self, actor, p, sh) ==
    IF self.row # "live" \/ self.rider # actor
      THEN [res |-> "not_found", self |-> self]
    ELSE IF self.status # STATUS_OPEN
      THEN [res |-> "bad_status", self |-> self]
    ELSE [res |-> "ok", self |-> [self EXCEPT !.passenger = p, !.sharable = sh]]

EditRide(actor, r, p, sh) ==
    /\ ride' = [ride EXCEPT ![r] = EditRideRow(ride[r], actor, p, sh).self]
    /\ UNCHANGED <<profile, shares, now>> /\ Idle

\* views.delete_ride: "ok" when the row is deleted
DeleteRideRes(self, actor) ==
    IF self.row # "live" \/ self.rider # actor THEN "not_found"
    ELSE IF self.status # STATUS_OPEN THEN "bad_status"
    ELSE "ok"

\* the shares go with the ride (on_delete=CASCADE)
DeleteRide(actor, r) ==
    /\ IF DeleteRideRes(ride[r], actor) = "ok"
       THEN /\ ride' = [ride EXCEPT ![r] = DeletedRide]
            /\ shares' = [shares EXCEPT ![r] = NoShares]
       ELSE UNCHANGED <<ride, shares>>
    /\ UNCHANGED <<profile, now>> /\ Idle

\* views.assign_driver (POST): [res, self]
AssignDriverRow(self, actor, driver_user, prof, rows, t) ==
    IF self.row # "live" THEN [res |-> "not_found", self |-> self]
    ELSE IF ~(actor = self.rider \/ is_admin(actor))
      THEN [res |-> "denied", self |-> self]
    ELSE IF prof[driver_user].capacity < TotalCommitted(self, rows)
      THEN [res |-> "capacity", self |-> self]
    ELSE [res |-> "ok",
          self |-> AssignDriver(self, driver_user, actor,
                                driver_user = self.rider \/ driver_user = actor, t)]

AssignDriverView(actor, r, driver_user) ==
    /\ ride' = [ride EXCEPT ![r] =
          AssignDriverRow(ride[r], actor, driver_user, profile, shares[r], now).self]
    /\ UNCHANGED <<profile, shares, now>> /\ Idle

\* views.accept_assignment: [res, self]
AcceptAssignmentRow(self, actor, prof, rows) ==
    IF self.row # "live" THEN [res |-> "not_found", self |-> self]
    ELSE IF self.driver # actor THEN [res |-> "denied", self |-> self]
    ELSE IF self.assignment_status # ASSIGN_PENDING
      THEN [res |-> "no_pending", self |-> self]
    ELSE AcceptAssignment(self, actor, prof, rows)

AcceptAssignmentView(actor, r) ==
    /\ ride' = [ride EXCEPT ![r] =
                   AcceptAssignmentRow(ride[r], actor, profile, shares[r]).self]
    /\ UNCHANGED <<profile, shares, now>> /\ Idle

\* views.reject_assignment: [res, self]
RejectAssignmentRow(self, actor) ==
    IF self.row # "live" THEN [res |-> "not_found", self |-> self]
    ELSE IF self.driver # actor THEN [res |-> "denied", self |-> self]
    ELSE IF self.assignment_status # ASSIGN_PENDING
      THEN [res |-> "no_pending", self |-> self]
    ELSE RejectAssignment(self, actor, TRUE)

RejectAssignmentView(actor, r) ==
    /\ ride' = [ride EXCEPT ![r] = RejectAssignmentRow(ride[r], actor).self]
    /\ UNCHANGED <<profile, shares, now>> /\ Idle

\* views.start_ride: [res, self]
StartRideRow(self, actor) ==
    IF self.row # "live" THEN [res |-> "not_found", self |-> self]
    ELSE Start(self, actor)

StartRide(actor, r) ==
    /\ ride' = [ride EXCEPT ![r] = StartRideRow(ride[r], actor).self]
    /\ UNCHANGED <<profile, shares, now>> /\ Idle

\* views.complete_ride: [res, self]
CompleteRideRow(self, actor) ==
    IF self.row # "live" THEN [res |-> "not_found", self |-> self]
    ELSE Complete(self, actor)

CompleteRide(actor, r) ==
    /\ ride' = [ride EXCEPT ![r] = CompleteRideRow(ride[r], actor).self]
    /\ UNCHANGED <<profile, shares, now>> /\ Idle

\* views.join_ride (POST): [res, rows]
JoinRideRows(self, actor, prof, rows, n) ==
    IF self.row # "live" THEN [res |-> "not_found", rows |-> rows]
    ELSE IF prof[actor].role = ROLE_DRIVER
      THEN [res |-> "driver_role", rows |-> rows]
    ELSE JoinOrUpdateShare(self, prof, rows, actor, n)

JoinRide(actor, r, n) ==
    /\ shares' = [shares EXCEPT ![r] =
                     JoinRideRows(ride[r], actor, profile, shares[r], n).rows]
    /\ UNCHANGED <<profile, ride, now>> /\ Idle

\* views.leave_ride: [res, rows]
LeaveRideRows(self, actor, rows) ==
    IF self.row # "live" THEN [res |-> "not_found", rows |-> rows]
    ELSE [res |-> "ok", rows |-> LeaveShare(rows, actor)]

LeaveRide(actor, r) ==
    /\ shares' = [shares EXCEPT ![r] = LeaveRideRows(ride[r], actor, shares[r]).rows]
    /\ UNCHANGED <<profile, ride, now>> /\ Idle

\* views.edit_share (POST): [res, rows]
EditShareRows(self, actor, prof, rows, n) ==
    IF self.row # "live" \/ ExistingShare(rows, actor) = 0
      THEN [res |-> "not_found", rows |-> rows]
    ELSE UpdateShare(self, prof, rows, actor, n)

EditShare(actor, r, n) ==
    /\ shares' = [shares EXCEPT ![r] =
                     EditShareRows(ride[r], actor, profile, shares[r], n).rows]
    /\ UNCHANGED <<profile, ride, now>> /\ Idle

\* ------------------------------------------------- the views, one at a time

Workers == {"w1", "w2"}
NoWorker == "nobody"

\* a worker between requests; op, user, ride, n, held and res are those of the
\* request it served last.  held is the passenger_count of the share row the
\* request read (0: it found none), fresh whether that row is still in the
\* table, first whether the sharer had no row when the request came in.
IdleReq == [pc |-> "idle", op |-> "none", user |-> NoUser, ride |-> 0, n |-> 0,
            held |-> 0, fresh |-> TRUE, first |-> FALSE, res |-> "none"]

Init ==
    /\ profile = [u \in Users |-> NewProfile]
    /\ ride = [r \in Rides |-> AbsentRide]
    /\ shares = [r \in Rides |-> NoShares]
    /\ now = 0
    /\ req = [w \in Workers |-> IdleReq]
    /\ lock = [r \in Rides |-> NoWorker]

Next ==
    \/ Tick
    \/ \E actor \in DriverPool, cap \in 0..MaxCap : RegisterDriver(actor, cap)
    \/ \E actor \in RoleSwitchers : SetRoleDriver(actor)
    \/ \E actor \in RoleSwitchers : RevertToPassenger(actor)
    \/ \E actor \in Creators, p \in 1..MaxPassenger, sh \in BOOLEAN, ds \in BOOLEAN :
          CreateRide(actor, p, sh, ds)
    \/ \E actor \in Users, r \in Rides, p \in 1..MaxPassenger, sh \in BOOLEAN :
          EditRide(actor, r, p, sh)
    \/ \E actor \in Users, r \in Rides : DeleteRide(actor, r)
    \/ \E actor \in Users, r \in Rides, d \in Users : AssignDriverView(actor, r, d)
    \/ \E actor \in Users, r \in Rides : AcceptAssignmentView(actor, r)
    \/ \E actor \in Users, r \in Rides : RejectAssignmentView(actor, r)
    \/ \E actor \in Users, r \in Rides : StartRide(actor, r)
    \/ \E actor \in Users, r \in Rides : CompleteRide(actor, r)
    \/ \E actor \in Users, r \in Rides, n \in 0..MaxCount : JoinRide(actor, r, n)
    \/ \E actor \in Users, r \in Rides : LeaveRide(actor, r)
    \/ \E actor \in Users, r \in Rides, n \in 0..MaxCount : EditShare(actor, r, n)

Spec == Init /\ [][Next]_vars

\* --------------------------------------- the share requests, several at once
\*
\* Each worker serves one request at a time.  A step is one database
\* statement (or the checks made on values already read).  The ride, its
\* driver and the profiles stay as ConcInit sets them.

ConcCap == 3       \* the capacity of the driver's vehicle in ConcInit
Sharers == {"u2", "u3"}   \* the users who post share requests

ConcInit ==
    /\ profile = [u \in Users |->
                     IF u = "u1" THEN [role |-> ROLE_DRIVER, capacity |-> ConcCap]
                     ELSE NewProfile]
    /\ ride = [r \in Rides |-> CreatedRide("u1", profile, 1, TRUE, FALSE, 0)]
    /\ shares = [r \in Rides |-> NoShares]
    /\ now = 0
    /\ req = [w \in Workers |-> IdleReq]
    /\ lock = [r \in Rides |-> NoWorker]

Frame == UNCHANGED <<profile, ride, now>>

\* the request of worker w ends with res; op, user, ride and n stay readable
Finished(w, res) ==
    [req[w] EXCEPT !.pc = "idle", !.fresh = TRUE, !.res = res]

\* the row lock of select_for_update is free
LockFree(r) == lock[r] = NoWorker

\* a transaction that ends and keeps its row lock
ReleaseNothing(w) == lock

\* the end of transaction.atomic(): the row lock of the worker is released
Release(w) == [r \in DOMAIN lock |-> IF lock[r] = w THEN NoWorker ELSE lock[r]]

\* views.join_ride up to transaction.atomic(): the ride is read, the role
\* and the request are checked on it
BeginJoin(w, user, r, n) ==
    /\ req[w].pc = "idle"
    /\ LET pre == IF ride[r].row # "live" THEN "not_found"
                  ELSE IF profile[user].role = ROLE_DRIVER THEN "driver_role"
                  ELSE JoinPrecheck(ride[r], n)
           new == [IdleReq EXCEPT !.op = "join", !.user = user, !.ride = r, !.n = n,
                                  !.first = (ExistingShare(shares[r], user) = 0)]
       IN req' = [req EXCEPT ![w] =
                     IF pre = "ok" THEN [new EXCEPT !.pc = "lock"]
                     ELSE [new EXCEPT !.res = pre]]
    /\ UNCHANGED <<shares, lock>> /\ Frame

\* views.edit_share and update_share up to transaction.atomic(): the share
\* is read here, before the lock is taken
BeginUpdate(w, user, r, n) ==
    /\ req[w].pc = "idle"
    /\ LET pre == IF ride[r].row # "live" \/ ExistingShare(shares[r], user) = 0
                  THEN "not_found"
                  ELSE UpdatePrecheck(shares[r], user, n)
           new == [IdleReq EXCEPT !.op = "update", !.user = user, !.ride = r, !.n = n]
       IN req' = [req EXCEPT ![w] =
                     IF pre = "ok"
                     THEN [new EXCEPT !.pc = "lock",
                                      !.held = ExistingCount(shares[r], user)]
                     ELSE [new EXCEPT !.res = pre]]
    /\ UNCHANGED <<shares, lock>> /\ Frame

\* Ride.objects.select_for_update().get(id=self.id); a row that was deleted
\* meanwhile is not found (Ride.DoesNotExist, not caught)
LockRide(w) ==
    /\ req[w].pc = "lock"
    /\ LockFree(req[w].ride)
    /\ IF ride[req[w].ride].row = "live"
       THEN /\ lock' = [lock EXCEPT ![req[w].ride] = w]
            /\ req' = [req EXCEPT ![w].pc =
                          IF req[w].op = "join" THEN "lookup" ELSE "check"]
       ELSE /\ req' = [req EXCEPT ![w] = Finished(w, "not_found")]
            /\ UNCHANGED lock
    /\ UNCHANGED shares /\ Frame

\* join_or_update_share: existing = locked.rideshare_set.filter(sharer=user).first()
JoinLookup(w) ==
    /\ req[w].pc = "lookup"
    /\ req' = [req EXCEPT ![w].pc = "check",
                          ![w].held = ExistingCount(shares[req[w].ride], req[w].user)]
    /\ UNCHANGED <<shares, lock>> /\ Frame

\* available = (locked.available_seats() or 0) + the held count; the request
\* ends here when it asks for more
ShareCheck(w) ==
    /\ req[w].pc = "check"
    /\ LET r == req[w].ride
       IN IF req[w].n > ShareAvailable(ride[r], profile, shares[r], req[w].held)
          THEN /\ req' = [req EXCEPT ![w] = Finished(w, "capacity")]
               /\ lock' = Release(w)
          ELSE /\ req' = [req EXCEPT ![w].pc = "write"]
               /\ UNCHANGED lock
    /\ UNCHANGED shares /\ Frame

\* the write of the transaction and its commit: [res, rows].  A held row that
\* was deleted meanwhile is not updated (DatabaseError, not caught).
ShareWriteRows(rq, rows) ==
    IF rq.held # 0 /\ ~rq.fresh THEN [res |-> "db_error", rows |-> rows]
    ELSE IF rq.op = "join"
      THEN JoinWrite(rows, rq.user, IF rq.held # 0 THEN 1 ELSE 0, rq.n)
    ELSE RideShareSave(rows, rq.user, rq.n)

ShareWrite(w) ==
    /\ req[w].pc = "write"
    /\ shares' = [shares EXCEPT ![req[w].ride] = ShareWriteRows(req[w], @).rows]
    /\ req' = [req EXCEPT ![w] =
                  Finished(w, ShareWriteRows(req[w], shares[req[w].ride]).res)]
    /\ lock' = Release(w)
    /\ Frame

\* views.leave_ride: one DELETE, no lock taken; the workers that hold the
\* deleted row hold a row that is gone
Leave(w, user, r) ==
    /\ req[w].pc = "idle"
    /\ shares' = [shares EXCEPT ![r] = LeaveRideRows(ride[r], user, @).rows]
    /\ req' = [v \in Workers |->
                 IF v = w
                 THEN [IdleReq EXCEPT !.op = "leave", !.user = user, !.ride = r,
                                      !.res = LeaveRideRows(ride[r], user, shares[r]).res]
                 ELSE IF req[v].user = user /\ req[v].ride = r /\ req[v].held # 0
                         /\ req[v].pc # "idle"
                 THEN [req[v] EXCEPT !.fresh = FALSE]
                 ELSE req[v]]
    /\ UNCHANGED lock /\ Frame

ConcNext ==
    \/ \E w \in Workers, u \in Sharers, r \in Rides, n \in 0..ConcCap : BeginJoin(w, u, r, n)
    \/ \E w \in Workers, u \in Sharers, r \in Rides, n \in 0..ConcCap : BeginUpdate(w, u, r, n)
    \/ \E w \in Workers : LockRide(w)
    \/ \E w \in Workers : JoinLookup(w)
    \/ \E w \in Workers : ShareCheck(w)
    \/ \E w \in Workers : ShareWrite(w)
    \/ \E w \in Workers, u \in Sharers, r \in Rides : Leave(w, u, r)

ConcSpec == ConcInit /\ [][ConcNext]_vars

\* ------------------------------------ the seats of one ride, one view at a time
\*
\* The views that decide the seats of one posted ride, with a vehicle large
\* enough for several sharers: u1 drives the ride it posted, u2 and u3 share
\* it, and u3 may register a vehicle of its own and be assigned the ride.

ShareCap == 4      \* largest vehicle capacity registered here
ShareCount == 3    \* largest passenger_count posted here
SecondDrivers == {"u3"}   \* the users who register a vehicle besides the creator

ShareInit ==
    /\ profile = [u \in Users |->
                     IF u = "u1" THEN [role |-> ROLE_DRIVER, capacity |-> ShareCap]
                     ELSE NewProfile]
    /\ ride = [r \in Rides |-> CreatedRide("u1", profile, 2, TRUE, FALSE, 0)]
    /\ shares = [r \in Rides |-> NoShares]
    /\ now = 0
    /\ req = [w \in Workers |-> IdleReq]
    /\ lock = [r \in Rides |-> NoWorker]

ShareNext ==
    \/ \E actor \in Creators \cup SecondDrivers, cap \in 0..ShareCap :
          RegisterDriver(actor, cap)
    \/ \E actor \in SecondDrivers : RevertToPassenger(actor)
    \/ \E actor \in Creators, r \in Rides, p \in 1..MaxPassenger, sh \in BOOLEAN :
          EditRide(actor, r, p, sh)
    \/ \E actor \in Creators, r \in Rides, d \in Creators \cup SecondDrivers :
          AssignDriverView(actor, r, d)
    \/ \E actor \in SecondDrivers, r \in Rides : AcceptAssignmentView(actor, r)
    \/ \E actor \in SecondDrivers, r \in Rides : RejectAssignmentView(actor, r)
    \/ \E actor \in Creators \cup SecondDrivers, r \in Rides : StartRide(actor, r)
    \/ \E actor \in Creators \cup SecondDrivers, r \in Rides : CompleteRide(actor, r)
    \/ \E actor \in Sharers, r \in Rides, n \in 0..ShareCount : JoinRide(actor, r, n)
    \/ \E actor \in Sharers, r \in Rides : LeaveRide(actor, r)
    \/ \E actor \in Sharers, r \in Rides, n \in 0..ShareCount : EditShare(actor, r, n)

ShareSpec == ShareInit /\ [][ShareNext]_vars

\* ------------------------------------------------- the search for a ride to share
\*
\* Here a ride row also carries its destination and arrivaldate, the fields
\* find_rides_to_share filters on.  A destination is a sequence of letters.

MaxArrival == 2    \* latest arrival time posted
FindRides == {1, 2}
Posters == {"u1"}              \* the users who post rides here
Destinations == {<<"a", "b">>, <<"A", "b">>, <<"b", "a">>}   \* posted
Queries == {<<"A", "B">>, <<"b", "a">>, <<"b">>}             \* searched for

\* the row with the two fields of the trip set
WithTrip(self, dest, arrival) ==
    [f \in DOMAIN self \cup {"destination", "arrivaldate"} |->
        IF f = "destination" THEN dest
        ELSE IF f = "arrivaldate" THEN arrival
        ELSE self[f]]

\* RideForm.clean_arrivaldate
ArrivalValid(arrival, t) == ~(arrival < t)

\* views.create_ride with the destination and arrival of the form
PostRide(actor, dest, arrival, sh, drive_self) ==
    /\ \E r \in DOMAIN ride : ride[r].row = "absent"
    /\ IF ArrivalValid(arrival, now)
       THEN ride' = [ride EXCEPT ![NextRideId] =
                        WithTrip(CreatedRide(actor, profile, 1, sh, drive_self, now),
                                 dest, arrival)]
       ELSE UNCHANGED ride
    /\ UNCHANGED <<profile, shares, now>> /\ Idle

\* views.edit_ride with the destination and arrival of the form
EditTrip(actor, r, dest, arrival, sh) ==
    /\ IF EditRideRow(ride[r], actor, 1, sh).res = "ok" /\ ArrivalValid(arrival, now)
       THEN ride' = [ride EXCEPT ![r] =
                        WithTrip(EditRideRow(ride[r], actor, 1, sh).self, dest, arrival)]
       ELSE UNCHANGED ride
    /\ UNCHANGED <<profile, shares, now>> /\ Idle

\* the case folding of destination__iexact
LowerChar(c) == CASE c = "A" -> "a" [] c = "B" -> "b" [] OTHER -> c

Lower(s) == [i \in 1..Len(s) |-> LowerChar(s[i])]

IExact(a, b) == Lower(a) = Lower(b)

\* arrivaldate__range with the upper end left out
InRangeOpenEnd(x, lo, hi) == lo <= x /\ x < hi

\* arrivaldate__range=[early, late]: BETWEEN early AND late
InRange(x, lo, hi) == lo <= x /\ x <= hi

\* ShareForm: passenger min_value=1, clean() refuses early > late
ShareFormValid(early, late, passenger) == passenger >= 1 /\ ~(early > late)

\* views.find_rides_to_share (POST): [res, rides], rides the ids of the rows
\* the query returns
FindRidesToShare(table, user, dest, early, late, passenger) ==
    IF ~ShareFormValid(early, late, passenger)
    THEN [res |-> "validation", rides |-> {}]
    ELSE [res |-> "ok",
          rides |-> {r \in DOMAIN table :
                       /\ table[r].row = "live"
                       /\ IExact(table[r].destination, dest)
                       /\ InRange(table[r].arrivaldate, early, late)
                       /\ table[r].sharable
                       /\ table[r].status = STATUS_OPEN
                       /\ table[r].assignment_status = ASSIGN_ACCEPTED
                       /\ table[r].rider # user}]

\* the view reads and writes nothing
FindRidesToShareView(actor, dest, early, late, passenger) ==
    /\ UNCHANGED <<profile, ride, shares, now>> /\ Idle
    /\ FindRidesToShare(ride, actor, dest, early, late, passenger).res
          \in {"ok", "validation"}

FindInit ==
    /\ profile = [u \in Users |-> NewProfile]
    /\ ride = [r \in FindRides |-> AbsentRide]
    /\ shares = [r \in FindRides |-> NoShares]
    /\ now = 0
    /\ req = [w \in Workers |-> IdleReq]
    /\ lock = [r \in FindRides |-> NoWorker]

FindNext ==
    \/ Tick
    \/ \E actor \in Posters, dest \in Destinations, arrival \in 0..MaxArrival,
          sh \in BOOLEAN, ds \in BOOLEAN : PostRide(actor, dest, arrival, sh, ds)
    \/ \E actor \in Posters, r \in FindRides, dest \in Destinations,
          arrival \in 0..MaxArrival, sh \in BOOLEAN : EditTrip(actor, r, dest, arrival, sh)
    \/ \E actor \in Posters, r \in FindRides : DeleteRide(actor, r)
    \/ \E actor \in Posters, r \in FindRides : StartRide(actor, r)
    \/ \E actor \in Posters, r \in FindRides : CompleteRide(actor, r)
    \/ \E actor \in Users, dest \in Queries, early \in 0..MaxArrival,
          late \in 0..MaxArrival, n \in 0..1 :
          FindRidesToShareView(actor, dest, early, late, n)

FindSpec == FindInit /\ [][FindNext]_vars

\* ------------------------------- the ride views racing with the share requests
\*
\* One worker serves share requests (join, edit-share), another edit_ride and
\* delete_ride, either of them accept_assignment: the views that read the ride
\* row, check it and write it back later.  The other views of the ride run
\* between their steps.  A statement that writes the Ride row waits while the row is locked.

RaceCap == 1       \* the capacity of the second driver's vehicle in RaceInit
ShareWorkers == {"w1"}
RideWorkers == {"w2"}
RaceSharers == {"u2"}

RaceInit ==
    /\ profile = [u \in Users |->
                     IF u = "u1" THEN [role |-> ROLE_DRIVER, capacity |-> ConcCap]
                     ELSE IF u \in SecondDrivers
                     THEN [role |-> ROLE_DRIVER, capacity |-> RaceCap]
                     ELSE NewProfile]
    /\ ride = [r \in Rides |-> CreatedRide("u1", profile, 1, TRUE, FALSE, 0)]
    /\ shares = [r \in Rides |-> NoShares]
    /\ now = 0
    /\ req = [w \in Workers |-> IdleReq]
    /\ lock = [r \in Rides |-> NoWorker]

\* the request rq that keeps the model instance it loaded
WithSeen(rq, row) ==
    [f \in DOMAIN rq \cup {"seen"} |-> IF f = "seen" THEN row ELSE rq[f]]

\* the ride request of worker w ends with res
RideDone(w, res) ==
    [IdleReq EXCEPT !.op = req[w].op, !.user = req[w].user, !.ride = req[w].ride,
                    !.n = req[w].n, !.res = res]

\* the workers that hold a share row of ride r lose it when the rows go
Orphaned(w, r, done) ==
    [v \in Workers |->
        IF v = w THEN done
        ELSE IF req[v].ride = r /\ req[v].held # 0 /\ req[v].pc # "idle"
        THEN [req[v] EXCEPT !.fresh = FALSE]
        ELSE req[v]]

\* views.accept_assignment and Ride.accept_assignment up to self.save: the
\* ride is read and the checks are made on the instance
BeginAccept(w, actor, r) ==
    /\ req[w].pc = "idle"
    /\ LET out == AcceptAssignmentRow(ride[r], actor, profile, shares[r])
           new == [IdleReq EXCEPT !.op = "accept", !.user = actor, !.ride = r]
       IN req' = [req EXCEPT ![w] =
                     IF out.res = "ok" THEN [new EXCEPT !.pc = "save"]
                     ELSE [new EXCEPT !.res = out.res]]
    /\ UNCHANGED <<shares, lock>> /\ Frame

\* self.save(update_fields=['assignment_status', 'updated_at']): the UPDATE
\* names the row by its id and sets this one column
AcceptSave(w) ==
    /\ req[w].pc = "save" /\ req[w].op = "accept"
    /\ LockFree(req[w].ride)
    /\ IF ride[req[w].ride].row = "live"
       THEN /\ ride' = [ride EXCEPT ![req[w].ride].assignment_status = ASSIGN_ACCEPTED]
            /\ req' = [req EXCEPT ![w] = RideDone(w, "ok")]
       ELSE /\ UNCHANGED ride
            /\ req' = [req EXCEPT ![w] = RideDone(w, "db_error")]
    /\ UNCHANGED <<profile, shares, now, lock>>

\* views.edit_ride (POST) up to form.save(): the ride is read, checked, and
\* the form writes its fields into the instance
BeginEdit(w, actor, r, p, sh) ==
    /\ req[w].pc = "idle"
    /\ LET out == EditRideRow(ride[r], actor, p, sh)
           new == [IdleReq EXCEPT !.op = "edit", !.user = actor, !.ride = r, !.n = p]
       IN req' = [req EXCEPT ![w] =
                     IF out.res = "ok" THEN WithSeen([new EXCEPT !.pc = "save"], out.self)
                     ELSE [new EXCEPT !.res = out.res]]
    /\ UNCHANGED <<shares, lock>> /\ Frame

\* form.save(): Model.save() without update_fields writes every column of the
\* instance (and inserts the row again when it is gone)
EditSave(w) ==
    /\ req[w].pc = "save" /\ req[w].op = "edit"
    /\ LockFree(req[w].ride)
    /\ ride' = [ride EXCEPT ![req[w].ride] = req[w].seen]
    /\ req' = [req EXCEPT ![w] = RideDone(w, "ok")]
    /\ UNCHANGED <<profile, shares, now, lock>>

\* views.delete_ride up to ride.delete(): the ride is read and checked
BeginDelete(w, actor, r) ==
    /\ req[w].pc = "idle"
    /\ LET res == DeleteRideRes(ride[r], actor)
           new == [IdleReq EXCEPT !.op = "delete", !.user = actor, !.ride = r]
       IN req' = [req EXCEPT ![w] =
                     IF res = "ok" THEN [new EXCEPT !.pc = "save"]
                     ELSE [new EXCEPT !.res = res]]
    /\ UNCHANGED <<shares, lock>> /\ Frame

\* ride.delete(): the row goes, and its shares with it
DeleteSave(w) ==
    /\ req[w].pc = "save" /\ req[w].op = "delete"
    /\ LockFree(req[w].ride)
    /\ ride' = [ride EXCEPT ![req[w].ride] = DeletedRide]
    /\ shares' = [shares EXCEPT ![req[w].ride] = NoShares]
    /\ req' = Orphaned(w, req[w].ride, RideDone(w, "ok"))
    /\ UNCHANGED <<profile, now, lock>>

RaceNext ==
    \/ \E w \in ShareWorkers, u \in RaceSharers, r \in Rides, n \in 1..MaxCount :
          BeginJoin(w, u, r, n)
    \/ \E w \in ShareWorkers, u \in RaceSharers, r \in Rides, n \in 1..MaxCount :
          BeginUpdate(w, u, r, n)
    \/ \E w \in ShareWorkers : LockRide(w)
    \/ \E w \in ShareWorkers : JoinLookup(w)
    \/ \E w \in ShareWorkers : ShareCheck(w)
    \/ \E w \in ShareWorkers : ShareWrite(w)
    \/ \E w \in Workers, actor \in SecondDrivers, r \in Rides : BeginAccept(w, actor, r)
    \/ \E w \in Workers : AcceptSave(w)
    \/ \E w \in RideWorkers, actor \in Creators, r \in Rides,
          p \in 1..MaxPassenger, sh \in BOOLEAN : BeginEdit(w, actor, r, p, sh)
    \/ \E w \in RideWorkers : EditSave(w)
    \/ \E w \in RideWorkers, actor \in Creators, r \in Rides : BeginDelete(w, actor, r)
    \/ \E w \in RideWorkers : DeleteSave(w)
    \/ \E actor \in Creators, r \in Rides, d \in Creators \cup SecondDrivers :
          LockFree(r) /\ AssignDriverView(actor, r, d)
    \/ \E actor \in SecondDrivers, r \in Rides :
          LockFree(r) /\ RejectAssignmentView(actor, r)
    \/ \E actor \in Creators \cup SecondDrivers, r \in Rides :
          LockFree(r) /\ StartRide(actor, r)
    \/ \E actor \in Creators \cup SecondDrivers, r \in Rides :
          LockFree(r) /\ CompleteRide(actor, r)

RaceSpec == RaceInit /\ [][RaceNext]_vars

\* ------------------------------------- the share requests on two rides, fairly
\*
\* Two rides of one driver, each already shared by u3 with one seat, and the
\* share requests of u2 on them by two workers.  A worker that runs a request
\* goes on to its next statement, and a request that waits for a row lock
\* gets it in the end: the database serves the waiters of a lock in turn.

FairCap == 3       \* the capacity of the driver's vehicle in FairInit
FairRides == {1, 2}

\* two rides posted by driver u1 whose vehicle has cap seats, u3 sharing each
TwoRideInit(cap) ==
    /\ profile = [u \in Users |->
                     IF u = "u1" THEN [role |-> ROLE_DRIVER, capacity |-> cap]
                     ELSE NewProfile]
    /\ ride = [r \in FairRides |-> CreatedRide("u1", profile, 1, TRUE, FALSE, 0)]
    /\ shares = [r \in FairRides |->
                    [u \in Users |-> IF u \in Sharers \ RaceSharers THEN <<1>> ELSE <<>>]]
    /\ now = 0
    /\ req = [w \in Workers |-> IdleReq]
    /\ lock = [r \in FairRides |-> NoWorker]

FairInit == TwoRideInit(FairCap)

FairNext ==
    \/ \E w \in Workers, u \in RaceSharers, r \in FairRides, n \in 1..MaxCount :
          BeginJoin(w, u, r, n)
    \/ \E w \in Workers, u \in RaceSharers, r \in FairRides, n \in 1..MaxCount :
          BeginUpdate(w, u, r, n)
    \/ \E w \in Workers : LockRide(w)
    \/ \E w \in Workers : JoinLookup(w)
    \/ \E w \in Workers : ShareCheck(w)
    \/ \E w \in Workers : ShareWrite(w)
    \/ \E w \in Workers, u \in RaceSharers, r \in FairRides : Leave(w, u, r)

\* the statements of a request follow one another; select_for_update is
\* granted to every waiter in turn
Fairness ==
    \A w \in Workers :
        /\ SF_vars(LockRide(w))
        /\ WF_vars(JoinLookup(w))
        /\ WF_vars(ShareCheck(w))
        /\ WF_vars(ShareWrite(w))

FairSpec == FairInit /\ [][FairNext]_vars /\ Fairness

\* the same two rides with a vehicle of ShareCap seats, the share requests of
\* u2 served one statement at a time by one worker
FrameInit == TwoRideInit(ShareCap)

FrameNext ==
    \/ \E w \in ShareWorkers, u \in RaceSharers, r \in FairRides, n \in 0..ShareCount :
          BeginJoin(w, u, r, n)
    \/ \E w \in ShareWorkers, u \in RaceSharers, r \in FairRides, n \in 0..ShareCount :
          BeginUpdate(w, u, r, n)
    \/ \E w \in ShareWorkers : LockRide(w)
    \/ \E w \in ShareWorkers : JoinLookup(w)
    \/ \E w \in ShareWorkers : ShareCheck(w)
    \/ \E w \in ShareWorkers : ShareWrite(w)
    \/ \E w \in ShareWorkers, u \in RaceSharers, r \in FairRides : Leave(w, u, r)

FrameSpec == FrameInit /\ [][FrameNext]_vars

\* --------------------------------------------- the users app (src/users)
\*
\* The users app keeps rides and shares of its own, without the assignment
\* handshake.  Its join_ride and edit_share are modelled on the same tables:
\* two rides posted by driver u1 (LegacyCap seats, LegacySeats of them for the
\* creator), the capacity and the creator seats staying as they are.

LegacyCap == 4     \* the capacity of the driver's vehicle in LegacyInit
LegacySeats == 2   \* the creator's seats on each ride in LegacyInit

\* users Ride.driver_capacity
LegacyDriverCapacity(self, prof) ==
    IF self.driver # NoUser THEN prof[self.driver].capacity ELSE 0

\* users Ride.available_seats
LegacyAvailableSeats(self, prof, rows) ==
    Max(LegacyDriverCapacity(self, prof) - self.passenger - SharedSum(rows), 0)

\* users join_ride (POST): [res, rows]
LegacyJoinRideRows(self, prof, rows, actor, n) ==
    IF self.row # "live" THEN [res |-> "not_found", rows |-> rows]
    ELSE IF n <= 0 THEN [res |-> "validation", rows |-> rows]
    ELSE IF ~self.sharable \/ self.status # STATUS_OPEN
      THEN [res |-> "not_sharable", rows |-> rows]
    ELSE IF self.driver = NoUser THEN [res |-> "no_driver", rows |-> rows]
    ELSE IF n > LegacyAvailableSeats(self, prof, rows) + ExistingCount(rows, actor)
      THEN [res |-> "capacity", rows |-> rows]
    ELSE IF ExistingShare(rows, actor) # 0
      THEN [res |-> "ok", rows |-> [rows EXCEPT ![actor][ExistingShare(rows, actor)] = n]]
    ELSE RideShareCreate(rows, actor, n)

\* ShareEditForm(request.POST, instance=share) after form.is_valid(): the
\* passenger_count of the instance.  A ModelForm that validates writes its
\* cleaned fields into the instance; PositiveIntegerField takes n >= 0.
BoundCount(held, n) == IF n >= 0 THEN n ELSE held

\* users edit_share (POST): [res, rows]
LegacyEditShareRows(self, prof, rows, actor, n) ==
    IF self.row # "live" \/ ExistingShare(rows, actor) = 0
      THEN [res |-> "not_found", rows |-> rows]
    ELSE IF n < 0 THEN [res |-> "validation", rows |-> rows]
    ELSE IF n > LegacyAvailableSeats(self, prof, rows)
                   + BoundCount(ExistingCount(rows, actor), n)
      THEN [res |-> "capacity", rows |-> rows]
    ELSE [res |-> "ok", rows |-> [rows EXCEPT ![actor][ExistingShare(rows, actor)] = n]]

LegacyJoinRide(actor, r, n) ==
    /\ shares' = [shares EXCEPT ![r] =
                     LegacyJoinRideRows(ride[r], profile, shares[r], actor, n).rows]
    /\ UNCHANGED <<profile, ride, now>> /\ Idle

LegacyEditShare(actor, r, n) ==
    /\ shares' = [shares EXCEPT ![r] =
                     LegacyEditShareRows(ride[r], profile, shares[r], actor, n).rows]
    /\ UNCHANGED <<profile, ride, now>> /\ Idle

\* users leave_ride
LegacyLeaveRide(actor, r) ==
    /\ shares' = [shares EXCEPT ![r] = [@ EXCEPT ![actor] = <<>>]]
    /\ UNCHANGED <<profile, ride, now>> /\ Idle

LegacyInit ==
    /\ profile = [u \in Users |->
                     IF u = "u1" THEN [role |-> ROLE_DRIVER, capacity |-> LegacyCap]
                     ELSE NewProfile]
    /\ ride = [r \in FairRides |->
                  CreatedRide("u1", profile, LegacySeats, TRUE, FALSE, 0)]
    /\ shares = [r \in FairRides |-> NoShares]
    /\ now = 0
    /\ req = [w \in Workers |-> IdleReq]
    /\ lock = [r \in FairRides |-> NoWorker]

LegacyNext ==
    \/ \E actor \in Sharers, r \in FairRides, n \in 0..ShareCount :
          LegacyJoinRide(actor, r, n)
    \/ \E actor \in Sharers, r \in FairRides, n \in 0..ShareCount :
          LegacyEditShare(actor, r, n)
    \/ \E actor \in Sharers, r \in FairRides : LegacyLeaveRide(actor, r)

LegacySpec == LegacyInit /\ [][LegacyNext]_vars

\* ===================================================================== claims

Accepted(r) == ride[r].row = "live" /\ ride[r].assignment_status = ASSIGN_ACCEPTED

\* creator seats + the seats of all shares
Committed(r) == ride[r].passenger + SharedSum(shares[r])

\* the requests a sharer may post in the checks below
Counts == 0..(MaxCount + 1)

\* C1: in every reachable state, every accepted ride whose driver has a
\* positive capacity has creator seats + shared seats <= that capacity.
C1_CapacityInvariant ==
    \A r \in DOMAIN ride :
        (Accepted(r) /\ ride[r].driver # NoUser
            /\ profile[ride[r].driver].capacity > 0)
        => Committed(r) <= profile[ride[r].driver].capacity

\* C2: in every state where the assigned driver's capacity is below the
\* committed seats, accept_assignment by that driver does not succeed: it
\* raises the capacity error on a pending ride and leaves the ride as it is.
C2_AcceptRespectsCapacity ==
    \A r \in DOMAIN ride, actor \in Users :
        (ride[r].row = "live" /\ ride[r].driver = actor
            /\ profile[actor].capacity < Committed(r))
        => LET o == AcceptAssignmentRow(ride[r], actor, profile, shares[r])
           IN /\ o.res # "ok"
              /\ o.self = ride[r]
              /\ ride[r].assignment_status = ASSIGN_PENDING => o.res = "capacity"

\* a pending ride whose driver's capacity is below the committed seats, where
\* the accept view answers with the capacity error
C2_Witness ==
    \E r \in DOMAIN ride, actor \in Users :
        /\ ride[r].row = "live" /\ ride[r].driver = actor
        /\ ride[r].assignment_status = ASSIGN_PENDING
        /\ profile[actor].capacity < Committed(r)
        /\ AcceptAssignmentRow(ride[r], actor, profile, shares[r]).res = "capacity"

\* what join_or_update_share lets a sharer ask for at most
Admissible(r, u) ==
    OrZero(AvailableSeats(ride[r], profile, shares[r])) + ExistingCount(shares[r], u)

\* the ride passes the checks join_or_update_share makes before the transaction
Joinable(r) ==
    /\ ride[r].sharable /\ ride[r].status = STATUS_OPEN
    /\ ride[r].driver # NoUser /\ Accepted(r)

\* C3 as stated: a request for more than available + existing always fails with
\* the capacity error and changes nothing.
C3_Original ==
    \A r \in DOMAIN ride, u \in Users, n \in Counts :
        (ride[r].row = "live" /\ n > Admissible(r, u))
        => LET o == JoinOrUpdateShare(ride[r], profile, shares[r], u, n)
           IN o.res = "capacity" /\ o.rows = shares[r]

\* C3 as amended: a request for more than available + existing always fails
\* and changes nothing; the failure is the capacity error when the ride is
\* sharable, open and accepted with a driver, and the error of the earlier
\* check otherwise.
C3_OverAskFails ==
    \A r \in DOMAIN ride, u \in Users, n \in Counts :
        (ride[r].row = "live" /\ n > Admissible(r, u))
        => LET o == JoinOrUpdateShare(ride[r], profile, shares[r], u, n)
           IN /\ o.res # "ok"
              /\ o.rows = shares[r]
              /\ Joinable(r) => o.res = "capacity"
              /\ ~Joinable(r) => o.res \in {"not_sharable", "no_driver"}

\* a joinable ride filled by earlier joins, where a sharer who holds a share
\* asks for one seat more and gets the capacity error
C3_Witness ==
    \E r \in DOMAIN ride, u \in Users :
        /\ Joinable(r)
        /\ AvailableSeats(ride[r], profile, shares[r]) = 0
        /\ ExistingCount(shares[r], u) > 0
        /\ JoinOrUpdateShare(ride[r], profile, shares[r], u,
                             ExistingCount(shares[r], u) + 1).res = "capacity"

\* C4: with the ride accepted and its driver, capacity and creator seats fixed,
\* no interleaving of join, edit-share and leave requests leaves creator seats
\* + shared seats above the driver's capacity.
C4_NoOvercommit ==
    \A r \in DOMAIN ride :
        Accepted(r) => Committed(r) <= profile[ride[r].driver].capacity

\* C5: at most one share row per (ride, sharer) in every state, and the write of
\* a join either leaves exactly one row of that sharer holding the requested
\* count, or fails (concurrency error, or the held row is gone) and writes
\* nothing.
C5_OneSharePerPair ==
    /\ [](\A r \in DOMAIN shares, u \in Users : Len(shares[r][u]) <= 1)
    /\ [][\A w \in Workers :
            (req[w].pc = "write" /\ req[w].op = "join" /\ ShareWrite(w))
            => \/ /\ req'[w].res = "ok"
                  /\ shares'[req[w].ride][req[w].user] = <<req[w].n>>
               \/ /\ req'[w].res \in {"concurrency", "db_error"}
                  /\ shares' = shares]_vars

\* two first-time joins of one sharer on one ride raced: both came in when the
\* sharer had no row, both succeeded, the second found the row of the first
\* under the lock and updated it, and one row exists
C5_Witness ==
    \E v, w \in Workers :
        /\ v # w
        /\ req[v].pc = "idle" /\ req[w].pc = "idle"
        /\ req[v].op = "join" /\ req[w].op = "join"
        /\ req[v].user = req[w].user /\ req[v].ride = req[w].ride
        /\ req[v].first /\ req[w].first
        /\ req[v].res = "ok" /\ req[w].res = "ok"
        /\ req[v].held = 0 /\ req[w].held > 0
        /\ shares[req[w].ride][req[w].user] = <<req[w].n>>

StatusStep(a, b) ==
    \/ a = STATUS_OPEN /\ b = STATUS_DRIVING
    \/ a = STATUS_DRIVING /\ b = STATUS_COMPLETED

C7_OnlyAcceptedDriverAdvances ==
    [][\A r \in DOMAIN ride :
         (ride[r].row = "live" /\ ride'[r].row = "live"
             /\ ride'[r].status # ride[r].status)
         => \E actor \in Users :
               /\ actor = ride[r].driver
               /\ ride[r].assignment_status = ASSIGN_ACCEPTED
               /\ StartRide(actor, r) \/ CompleteRide(actor, r)]_vars

C9_HandshakeEdges ==
    [][\A r \in DOMAIN ride :
         /\ (ride[r].row = "live" /\ ride'[r].row = "live"
                /\ ride'[r].assignment_status # ride[r].assignment_status)
            => \/ /\ ride[r].assignment_status \in {ASSIGN_NONE, ASSIGN_REJECTED}
                  /\ ride'[r].assignment_status \in {ASSIGN_PENDING, ASSIGN_ACCEPTED}
                  /\ \E actor, d \in Users : AssignDriverView(actor, r, d)
               \/ /\ ride[r].assignment_status = ASSIGN_PENDING
                  /\ ride'[r].assignment_status = ASSIGN_ACCEPTED
                  /\ \E actor \in Users : AcceptAssignmentView(actor, r)
               \/ /\ ride[r].assignment_status = ASSIGN_PENDING
                  /\ ride'[r].assignment_status = ASSIGN_REJECTED
                  /\ \E actor \in Users : RejectAssignmentView(actor, r)
         /\ \A actor \in Users :
               (ride[r].assignment_status # ASSIGN_PENDING
                   /\ (AcceptAssignmentView(actor, r) \/ RejectAssignmentView(actor, r)))
               => ride'[r] = ride[r]]_vars

Cleared(self) ==
    [self EXCEPT !.driver = NoUser, !.assignment_status = ASSIGN_REJECTED,
                 !.assigned_at = NoTime, !.assigned_by = NoUser]

\* C11: a reject by the assigned driver with clear_driver leaves the ride with
\* driver, assigned_at and assigned_by cleared and assignment_status rejected,
\* every other field and all shares as they were; from that state an assign by
\* the creator of any driver whose capacity covers the committed seats succeeds
\* and gives pending (accepted for the creator).  Without clear_driver only
\* assignment_status changes, to rejected.
C11_RejectClearsAndReopens ==
    /\ [][\A actor \in Users, r \in DOMAIN ride :
            (RejectAssignmentView(actor, r)
                /\ RejectAssignmentRow(ride[r], actor).res = "ok")
            => /\ ride'[r] = Cleared(ride[r])
               /\ shares' = shares]_vars
    /\ [](\A r \in DOMAIN ride :
            (ride[r].row = "live" /\ ride[r].driver # NoUser)
            => LET d == ride[r].driver
               IN /\ RejectAssignment(ride[r], d, TRUE) =
                        [res |-> "ok", self |-> Cleared(ride[r])]
                  /\ RejectAssignment(ride[r], d, FALSE) =
                        [res |-> "ok",
                         self |-> [ride[r] EXCEPT !.assignment_status = ASSIGN_REJECTED]])
    /\ [](\A r \in DOMAIN ride, d \in Users :
            (/\ ride[r].row = "live" /\ ride[r].driver = NoUser
             /\ ride[r].assignment_status = ASSIGN_REJECTED
             /\ profile[d].capacity >= Committed(r))
            => LET o == AssignDriverRow(ride[r], ride[r].rider, d, profile,
                                        shares[r], now)
               IN /\ o.res = "ok"
                  /\ o.self.driver = d
                  /\ o.self.assignment_status =
                        IF d = ride[r].rider THEN ASSIGN_ACCEPTED ELSE ASSIGN_PENDING)

\* a ride with a share on it whose pending driver rejected: no driver, rejected,
\* the share still there, and a driver the creator can assign next
C11_Witness ==
    \E r \in DOMAIN ride, d \in Users :
        /\ ride[r].row = "live" /\ ride[r] = Cleared(ride[r])
        /\ SharedSum(shares[r]) > 0
        /\ d # ride[r].rider
        /\ profile[d].capacity >= Committed(r)
        /\ AssignDriverRow(ride[r], ride[r].rider, d, profile, shares[r], now).res = "ok"

\* C12: accept and reject by a user who is not the ride's assigned driver
\* (also when the ride has no driver) are refused as not authorized, by the
\* views and by the methods of Ride, and the ride row stays as it is.
C12_OnlyDriverAnswers ==
    \A r \in DOMAIN ride, actor \in Users :
        (ride[r].row = "live" /\ ride[r].driver # actor)
        => /\ AcceptAssignmentRow(ride[r], actor, profile, shares[r]) =
                 [res |-> "denied", self |-> ride[r]]
           /\ RejectAssignmentRow(ride[r], actor) =
                 [res |-> "denied", self |-> ride[r]]
           /\ AcceptAssignment(ride[r], actor, profile, shares[r]) =
                 [res |-> "not_driver", self |-> ride[r]]
           /\ \A clear_driver \in BOOLEAN :
                 RejectAssignment(ride[r], actor, clear_driver) =
                    [res |-> "not_driver", self |-> ride[r]]

\* a pending ride whose creator, not being the driver, is refused the accept
\* although the vehicle of the creator would hold the committed seats
C12_Witness ==
    \E r \in DOMAIN ride :
        /\ ride[r].row = "live"
        /\ ride[r].assignment_status = ASSIGN_PENDING
        /\ ride[r].driver # ride[r].rider
        /\ profile[ride[r].rider].capacity >= Committed(r)
        /\ AcceptAssignmentRow(ride[r], ride[r].rider, profile, shares[r]).res = "denied"

\* C13: start by a user succeeds exactly when the user is the ride's driver,
\* assignment_status is accepted and status is open; then only status changes,
\* to driving; otherwise start fails and the ride is unchanged.
C13_StartGuard ==
    \A r \in DOMAIN ride, actor \in Users :
        ride[r].row = "live"
        => LET o == Start(ride[r], actor)
               may == /\ ride[r].driver = actor
                      /\ ride[r].assignment_status = ASSIGN_ACCEPTED
                      /\ ride[r].status = STATUS_OPEN
           IN /\ (o.res = "ok") <=> may
              /\ may => o.self = [ride[r] EXCEPT !.status = STATUS_DRIVING]
              /\ ~may => o.self = ride[r]

\* an open ride whose pending driver is refused the start, while the ride
\* has shares on it
C13_Witness ==
    \E r \in DOMAIN ride :
        /\ ride[r].row = "live" /\ ride[r].status = STATUS_OPEN
        /\ ride[r].assignment_status = ASSIGN_PENDING
        /\ SharedSum(shares[r]) > 0
        /\ Start(ride[r], ride[r].driver).res = "not_accepted"

\* C14: available_seats is max(capacity - creator seats - shared seats, 0) when
\* the ride has a driver of positive capacity, and the sentinel Unknown, which
\* is not 0, when it has no driver or the driver's capacity is 0; it is 0 only
\* when a driver of positive capacity has all seats committed or over-committed.
C14_AvailableSeats ==
    \A r \in DOMAIN ride :
        ride[r].row = "live"
        => LET a == AvailableSeats(ride[r], profile, shares[r])
               d == ride[r].driver
               known == d # NoUser /\ profile[d].capacity > 0
           IN /\ Unknown # 0
              /\ known => /\ a >= 0
                          /\ a >= profile[d].capacity - Committed(r)
                          /\ a = 0 \/ a = profile[d].capacity - Committed(r)
              /\ ~known => a = Unknown
              /\ a = 0 => (known /\ Committed(r) >= profile[d].capacity)

\* an accepted ride with a share on it, committed beyond the capacity of its
\* driver: available_seats is 0, not negative
C14_Witness ==
    \E r \in DOMAIN ride :
        /\ Accepted(r) /\ ride[r].driver # NoUser
        /\ profile[ride[r].driver].capacity > 0
        /\ SharedSum(shares[r]) > 0
        /\ Committed(r) > profile[ride[r].driver].capacity
        /\ AvailableSeats(ride[r], profile, shares[r]) = 0

\* C15: leave never fails on a ride, whatever its state: afterwards the sharer
\* has no share on the ride, the shares of the other sharers are as they were,
\* a leave without a share changes nothing, and a second leave changes nothing.
C15_LeaveIdempotent ==
    /\ [](\A r \in DOMAIN ride, u \in Users :
            ride[r].row = "live"
            => LET o == LeaveRideRows(ride[r], u, shares[r])
               IN /\ o.res = "ok"
                  /\ o.rows[u] = <<>>
                  /\ \A v \in Users \ {u} : o.rows[v] = shares[r][v]
                  /\ shares[r][u] = <<>> => o.rows = shares[r]
                  /\ LeaveRideRows(ride[r], u, o.rows) = o)
    /\ [][\A actor \in Users, r \in DOMAIN ride :
            (LeaveRide(actor, r) /\ ride[r].row = "live")
            => /\ shares'[r][actor] = <<>>
               /\ \A v \in Users \ {actor} : shares'[r][v] = shares[r][v]
               /\ ride' = ride /\ profile' = profile]_vars

\* a completed ride on which one sharer holds a share and another holds none:
\* the first can still leave, the leave of the second is a no-op
C15_Witness ==
    \E r \in DOMAIN ride, u, v \in Users :
        /\ ride[r].row = "live" /\ ride[r].status = STATUS_COMPLETED
        /\ u # v
        /\ shares[r][u] # <<>> /\ shares[r][v] = <<>>
        /\ LeaveRideRows(ride[r], u, shares[r]).rows = NoShares
        /\ LeaveRideRows(ride[r], v, shares[r]).rows = shares[r]

\* the shares of a ride with the one row of user u holding m seats
WithShare(rows, u, m) == [rows EXCEPT ![u] = <<m>>]

\* C16: a join that succeeds with n is read back as n seats of that sharer;
\* and a sharer who holds n seats and asks for m, 1 <= m <= n, gets m: through
\* update_share always, through join_or_update_share whenever the ride is
\* sharable, open and accepted -- also on a ride that is full, over-committed
\* or of unknown availability.
C16_ReadBackAndReduce ==
    /\ [][\A actor \in Users, r \in DOMAIN ride, n \in 0..ShareCount :
            (JoinRide(actor, r, n)
                /\ JoinRideRows(ride[r], actor, profile, shares[r], n).res = "ok")
            => shares'[r][actor] = <<n>>]_vars
    /\ [](\A r \in DOMAIN ride, u \in Users :
            (ride[r].row = "live" /\ ExistingShare(shares[r], u) > 0)
            => \A m \in 1..ExistingCount(shares[r], u) :
                  LET done == [res |-> "ok", rows |-> WithShare(shares[r], u, m)]
                  IN /\ UpdateShare(ride[r], profile, shares[r], u, m) = done
                     /\ EditShareRows(ride[r], u, profile, shares[r], m) = done
                     /\ Joinable(r) =>
                           JoinOrUpdateShare(ride[r], profile, shares[r], u, m) = done)

\* an accepted, sharable, open ride committed beyond the capacity of its
\* driver, on which a sharer holding 2 seats comes down to 1
C16_Witness ==
    \E r \in DOMAIN ride, u \in Users :
        /\ Joinable(r)
        /\ Committed(r) > profile[ride[r].driver].capacity
        /\ shares[r][u] = <<2>>
        /\ JoinOrUpdateShare(ride[r], profile, shares[r], u, 1).rows[u] = <<1>>
        /\ UpdateShare(ride[r], profile, shares[r], u, 1).rows[u] = <<1>>

\* C17: on an accepted, sharable, open ride of a driver with capacity 4 and 2
\* creator seats and no shares, available_seats is 2; A joins with 2 and
\* succeeds, available_seats is 0; B joins with 1 and gets the capacity error;
\* A updates to 1 (by edit-share or by joining again) and succeeds,
\* available_seats is 1; B joins with 1 and succeeds.
C17_Scenario ==
    \A r \in DOMAIN ride, A, B \in Users :
        (/\ Joinable(r) /\ profile[ride[r].driver].capacity = 4
         /\ ride[r].passenger = 2 /\ shares[r] = NoShares
         /\ A # B
         /\ profile[A].role # ROLE_DRIVER /\ profile[B].role # ROLE_DRIVER)
        => LET j1 == JoinRideRows(ride[r], A, profile, NoShares, 2)
               j2 == JoinRideRows(ride[r], B, profile, j1.rows, 1)
               e3 == EditShareRows(ride[r], A, profile, j2.rows, 1)
               u3 == JoinRideRows(ride[r], A, profile, j2.rows, 1)
               j4 == JoinRideRows(ride[r], B, profile, e3.rows, 1)
           IN /\ AvailableSeats(ride[r], profile, NoShares) = 2
              /\ j1.res = "ok" /\ j1.rows = WithShare(NoShares, A, 2)
              /\ AvailableSeats(ride[r], profile, j1.rows) = 0
              /\ j2.res = "capacity" /\ j2.rows = j1.rows
              /\ e3.res = "ok" /\ e3.rows = WithShare(NoShares, A, 1)
              /\ u3 = e3
              /\ AvailableSeats(ride[r], profile, e3.rows) = 1
              /\ j4.res = "ok" /\ j4.rows = WithShare(e3.rows, B, 1)

\* the end of the scenario: capacity 4, 2 creator seats, A and B hold 1 seat
\* each, nothing left
C17_Witness ==
    \E r \in DOMAIN ride :
        /\ Joinable(r) /\ profile[ride[r].driver].capacity = 4
        /\ ride[r].passenger = 2
        /\ shares[r] = WithShare(WithShare(NoShares, "u2", 1), "u3", 1)
        /\ AvailableSeats(ride[r], profile, shares[r]) = 0

\* C18: a call of assign, accept, reject, start, complete, join or update-share
\* that fails leaves the ride row and the shares of the ride exactly as they
\* were -- also a create that meets a row written meanwhile; and a pending
\* driver of capacity 1 on a ride with 2 creator seats is refused the accept
\* with the capacity error, the ride staying pending with that driver.
C18_FailureWritesNothing ==
    /\ [](\A r \in DOMAIN ride, actor \in Users :
            LET self == ride[r]
                rows == shares[r]
                kept(o) == o.res # "ok" => o.self = self
                keptRows(o) == o.res # "ok" => o.rows = rows
            IN /\ \A d \in Users :
                     kept(AssignDriverRow(self, actor, d, profile, rows, now))
               /\ kept(AcceptAssignmentRow(self, actor, profile, rows))
               /\ kept(RejectAssignmentRow(self, actor))
               /\ kept(StartRideRow(self, actor))
               /\ kept(CompleteRideRow(self, actor))
               /\ self.row = "live" =>
                     /\ kept(AcceptAssignment(self, actor, profile, rows))
                     /\ \A c \in BOOLEAN : kept(RejectAssignment(self, actor, c))
                     /\ kept(Start(self, actor))
                     /\ kept(Complete(self, actor))
               /\ \A n \in Counts :
                     /\ keptRows(JoinRideRows(self, actor, profile, rows, n))
                     /\ keptRows(EditShareRows(self, actor, profile, rows, n))
                     /\ self.row = "live" =>
                           /\ keptRows(JoinOrUpdateShare(self, profile, rows, actor, n))
                           /\ keptRows(UpdateShare(self, profile, rows, actor, n))
                           /\ rows[actor] # <<>> =>
                                 JoinWrite(rows, actor, 0, n) =
                                    [res |-> "concurrency", rows |-> rows]
               /\ (/\ self.row = "live" /\ self.driver = actor
                   /\ self.assignment_status = ASSIGN_PENDING
                   /\ profile[actor].capacity = 1 /\ self.passenger = 2)
                  => AcceptAssignmentRow(self, actor, profile, rows) =
                        [res |-> "capacity", self |-> self])
    /\ [][\A r \in DOMAIN ride, actor \in Users :
            /\ \A d \in Users :
                  (AssignDriverView(actor, r, d)
                      /\ AssignDriverRow(ride[r], actor, d, profile, shares[r], now).res # "ok")
                  => (ride' = ride /\ shares' = shares)
            /\ (AcceptAssignmentView(actor, r)
                   /\ AcceptAssignmentRow(ride[r], actor, profile, shares[r]).res # "ok")
               => (ride' = ride /\ shares' = shares)
            /\ (RejectAssignmentView(actor, r)
                   /\ RejectAssignmentRow(ride[r], actor).res # "ok")
               => (ride' = ride /\ shares' = shares)
            /\ (StartRide(actor, r) /\ StartRideRow(ride[r], actor).res # "ok")
               => (ride' = ride /\ shares' = shares)
            /\ (CompleteRide(actor, r) /\ CompleteRideRow(ride[r], actor).res # "ok")
               => (ride' = ride /\ shares' = shares)
            /\ \A n \in 0..MaxCount :
                  /\ (JoinRide(actor, r, n)
                         /\ JoinRideRows(ride[r], actor, profile, shares[r], n).res # "ok")
                     => (ride' = ride /\ shares' = shares)
                  /\ (EditShare(actor, r, n)
                         /\ EditShareRows(ride[r], actor, profile, shares[r], n).res # "ok")
                     => (ride' = ride /\ shares' = shares)]_vars

\* a ride with 2 creator seats pending on a driver of capacity 1, who is
\* refused the accept
C18_Witness ==
    \E r \in DOMAIN ride :
        /\ ride[r].row = "live" /\ ride[r].assignment_status = ASSIGN_PENDING
        /\ ride[r].driver # NoUser
        /\ profile[ride[r].driver].capacity = 1 /\ ride[r].passenger = 2
        /\ AcceptAssignmentRow(ride[r], ride[r].driver, profile, shares[r]) =
              [res |-> "capacity", self |-> ride[r]]

\* C20: for a sharer who holds a share, update_share(n) succeeds exactly where
\* join_or_update_share(n) succeeds, with the same shares afterwards; for a
\* sharer without a share it fails as not found and writes nothing.
C20_UpdateAsJoin ==
    \A r \in DOMAIN ride, u \in Users, n \in 1..(ShareCount + 1) :
        ride[r].row = "live"
        => LET up == UpdateShare(ride[r], profile, shares[r], u, n)
               jn == JoinOrUpdateShare(ride[r], profile, shares[r], u, n)
           IN IF ExistingShare(shares[r], u) > 0
              THEN /\ (up.res = "ok") <=> (jn.res = "ok")
                   /\ up.rows = jn.rows
              ELSE up = [res |-> "not_found", rows |-> shares[r]]

\* two letters that are equal but for their case
SameLetter(c, d) == c = d \/ {c, d} = {"a", "A"} \/ {c, d} = {"b", "B"}

SameIgnoringCase(a, b) ==
    Len(a) = Len(b) /\ \A i \in 1..Len(a) : SameLetter(a[i], b[i])

\* C19: for a valid search (early <= late) find_rides_to_share returns exactly
\* the rides whose destination equals the one searched for but for case, whose
\* arrival is in [early, late], ends included, that are sharable, open and
\* accepted, and whose rider is not the user searching; and it changes no state.
C19_FindExact ==
    /\ [](\A user \in Users, dest \in Queries \cup Destinations,
             early \in 0..MaxArrival, late \in 0..MaxArrival :
            early <= late
            => LET o == FindRidesToShare(ride, user, dest, early, late, 1)
               IN /\ o.res = "ok"
                  /\ o.rides \subseteq DOMAIN ride
                  /\ \A r \in DOMAIN ride :
                        r \in o.rides <=>
                           /\ ride[r].row = "live"
                           /\ SameIgnoringCase(ride[r].destination, dest)
                           /\ early <= ride[r].arrivaldate
                           /\ ride[r].arrivaldate <= late
                           /\ ride[r].sharable = TRUE
                           /\ ride[r].status = STATUS_OPEN
                           /\ ride[r].assignment_status = ASSIGN_ACCEPTED
                           /\ ride[r].rider # user)
    /\ [][\/ UNCHANGED <<profile, ride, shares>>
          \/ ~(\E actor \in Users, dest \in Queries, early \in 0..MaxArrival,
                  late \in 0..MaxArrival, n \in 0..1 :
                  FindRidesToShareView(actor, dest, early, late, n))]_vars

\* two rides to the same place but for the case of the letters, both sharable
\* and accepted; one is open and arrives at the late end of the search and is
\* found, the other is under way and is not
C19_Witness ==
    \E user \in Users, dest \in Queries, early \in 0..MaxArrival, late \in 0..MaxArrival :
        /\ early < late
        /\ ride[1].row = "live" /\ ride[2].row = "live"
        /\ ride[1].destination # dest /\ ride[2].destination # ride[1].destination
        /\ SameIgnoringCase(ride[1].destination, dest)
        /\ SameIgnoringCase(ride[2].destination, dest)
        /\ ride[1].arrivaldate = late /\ ride[2].arrivaldate = late
        /\ ride[2].sharable /\ ride[2].status = STATUS_DRIVING
        /\ FindRidesToShare(ride, user, dest, early, late, 1).rides = {1}

\* C21 [concurrency].  A join request creates or changes a reservation only
\* if, at the moment it writes, the ride row is live, sharable, open and
\* accepted by a driver: whatever start, complete, assign, reject, edit or
\* delete did since the request read the ride, the write finds the ride in
\* the state join_or_update_share asks for.
C21_WriteOnValidRide ==
    [][\A w \in ShareWorkers :
          (/\ req[w].pc = "write" /\ req[w].op = "join"
           /\ req'[w].pc = "idle" /\ req'[w].res = "ok")
          => /\ ride[req[w].ride].row = "live"
             /\ JoinPrecheck(ride[req[w].ride], req[w].n) = "ok"]_vars

\* C22 [concurrency].  When an accept request writes assignment_status =
\* accepted, the driver of the ride has room for the seats committed at that
\* moment (creator seats + shares), whatever the share requests, a
\* re-assignment or an edit of the seat count did while the accept ran.
C22_AcceptWithinCapacity ==
    [][\A w \in Workers :
          (/\ req[w].pc = "save" /\ req[w].op = "accept"
           /\ req'[w].pc = "idle" /\ req'[w].res = "ok")
          => LET r == req[w].ride
             IN ride'[r].driver # NoUser
                => profile'[ride'[r].driver].capacity
                       >= TotalCommitted(ride'[r], shares'[r])]_vars

\* C23 [concurrency].  The reservation requests on one ride are serialized:
\* a join or edit-share request that reached the locked section ends with the
\* result, and leaves the shares, that the whole method gives when it runs
\* alone on the tables as they are at that moment (its read of the share, its
\* capacity check and its write are one step for every other request).
C23_AtomicOutcome ==
    [][\A w \in Workers :
          (req[w].pc \in {"check", "write"} /\ req'[w].pc = "idle")
          => LET r == req[w].ride
                 out == IF req[w].op = "join"
                        THEN JoinOrUpdateShare(ride[r], profile, shares[r],
                                               req[w].user, req[w].n)
                        ELSE UpdateShare(ride[r], profile, shares[r],
                                         req[w].user, req[w].n)
             IN /\ req'[w].res = out.res
                /\ shares'[r] = out.rows]_vars

\* a row lock is held only by a worker inside the transaction of a request on
\* that ride
LockHeldInside ==
    \A r \in DOMAIN lock :
        lock[r] # NoWorker
        => /\ req[lock[r]].pc \in {"lookup", "check", "write"}
           /\ req[lock[r]].ride = r

\* C24 [termination_resources].  The row lock is released on every way out of
\* join_or_update_share and update_share (a worker between requests holds no
\* lock, and a lock is held only inside the transaction of a request on that
\* very ride, so requests on different rides never wait for each other); and
\* under fair scheduling every request that waits for the lock gets it and
\* every reservation request comes to its end.
C24_LockReleasedAndTerminates ==
    /\ [](LockHeldInside)
    /\ \A w \in Workers : (req[w].pc = "lock") ~> (req[w].pc # "lock")
    /\ \A w \in Workers : (req[w].pc # "idle") ~> (req[w].pc = "idle")

\* a request waits for the lock of ride 1 that the other worker holds, after
\* requests have ended on each way out (success, refusal, error)
C24_Witness ==
    \E w, v \in Workers :
        /\ req[w].pc = "lock" /\ lock[req[w].ride] = v /\ v # w
        /\ req[w].ride = 1
        /\ lock[2] = NoWorker
        /\ shares[2]["u2"] # <<>>

\* C25 [frame_effect].  A step of join_or_update_share, update_share or
\* leave_share changes nothing but the reservation of the acting sharer on
\* the ride of the request: the ride rows and the profiles (capacity) stay as
\* they are, and a share row that changes is the row of a sharer u on a ride r
\* for which that step is the write of a request of u on r, or the leave of u
\* from r.
C25_OnlyOwnReservation ==
    [][/\ ride' = ride
       /\ profile' = profile
       /\ \A r \in FairRides, u \in Users :
             shares'[r][u] # shares[r][u]
             => \E w \in Workers :
                   \/ /\ req[w].pc = "write" /\ req'[w].pc = "idle"
                      /\ req[w].ride = r /\ req[w].user = u
                   \/ /\ req[w].pc = "idle" /\ req'[w].op = "leave"
                      /\ req'[w].ride = r /\ req'[w].user = u
                      /\ shares'[r][u] = <<>>]_vars

\* u2 holds a reservation of its own on each ride, has just raised the one on
\* ride 1 to 2 seats, and the reservations of u3 are on both rides as they were
C25_Witness ==
    /\ ExistingCount(shares[1], "u2") = 2
    /\ ExistingCount(shares[2], "u2") = 1
    /\ shares[1]["u3"] = <<1>> /\ shares[2]["u3"] = <<1>>
    /\ \E w \in Workers : /\ req[w].op = "update" /\ req[w].pc = "idle"
                          /\ req[w].ride = 1 /\ req[w].res = "ok"

\* C26 [safety].  edit_ride and delete_ride write only an open ride of the
\* requesting creator: at the step where an edit is saved or the row is
\* deleted, the ride row is live, belongs to the requester and is open (a ride
\* that started or completed meanwhile is neither modified nor deleted, so
\* its shares are never deleted with it).
C26_WritesOnlyOpenRide ==
    [][\A w \in RideWorkers :
          (/\ req[w].pc = "save" /\ req[w].op \in {"edit", "delete"}
           /\ req'[w].pc = "idle")
          => LET r == req[w].ride
             IN \/ ride'[r] = ride[r] /\ shares'[r] = shares[r]
                \/ /\ ride[r].row = "live"
                   /\ ride[r].rider = req[w].user
                   /\ ride[r].status = STATUS_OPEN]_vars

C28_LegacyWithinCapacity ==
    \A r \in FairRides :
        ride[r].passenger + SharedSum(shares[r])
            <= LegacyDriverCapacity(ride[r], profile)

\* C29 [invariants].  A ride that is driving or completed has a driver and
\* its assignment is accepted: once a ride has started, no view (assign by
\* the creator or an admin, reject, accept) changes its driver or its
\* assignment_status.
C29_StartedRideKeepsDriver ==
    \A r \in Rides :
        (ride[r].row = "live" /\ ride[r].status \in {STATUS_DRIVING, STATUS_COMPLETED})
        => /\ ride[r].driver # NoUser
           /\ ride[r].assignment_status = ASSIGN_ACCEPTED

\* C30 [safety].  On a ride that is open, sharable and accepted by a driver
\* whose capacity is 0 (available_seats() unknown), join_or_update_share
\* counts 0 seats available: a sharer without a reservation is refused for
\* every count >= 1 and nothing is written; a sharer holding m seats gets
\* exactly the counts 1..m (keep or reduce), so the seats shared never grow.
C30_UnknownAsZero ==
    \A r \in Rides, u \in Users, n \in 1..(MaxCount + 1) :
        (/\ ride[r].row = "live"
         /\ JoinPrecheck(ride[r], n) = "ok"
         /\ AvailableSeats(ride[r], profile, shares[r]) = Unknown)
        => /\ ExistingShare(shares[r], u) = 0
              => LET out == JoinOrUpdateShare(ride[r], profile, shares[r], u, n)
                 IN out.res = "capacity" /\ out.rows = shares[r]
           /\ \A m \in 1..(MaxCount + 1) :
                 LET rows == WithShare(shares[r], u, m)
                     out == JoinOrUpdateShare(ride[r], profile, rows, u, n)
                 IN /\ (out.res = "ok") <=> (n <= m)
                    /\ out.res = "ok"
                       => /\ ExistingCount(out.rows, u) = n
                          /\ SharedSum(out.rows) <= SharedSum(rows)
                    /\ out.res # "ok" => out.rows = rows

\* a passenger who chose drive_self drives its open, sharable ride with no
\* vehicle capacity; u2 is refused one seat, and would keep or reduce two
C30_Witness ==
    \E r \in Rides :
        /\ ride[r].row = "live"
        /\ JoinPrecheck(ride[r], 1) = "ok"
        /\ profile[ride[r].driver].capacity = 0
        /\ AvailableSeats(ride[r], profile, shares[r]) = Unknown
        /\ JoinRideRows(ride[r], "u2", profile, shares[r], 1).res = "capacity"
        /\ JoinOrUpdateShare(ride[r], profile, WithShare(shares[r], "u2", 2), "u2", 1).res = "ok"

====
